---- MODULE Spec2Model ----
(***************************************************************************)
(* Model of the random hypergraph generators:                              *)
(*   FirstMethod.py   generate_random_hypergraph_from_scratch              *)
(*   SecondMethod.py  generate_random_hypergraph_from_a_tree               *)
(*   main.py          main                                                 *)
(*   writeHGtoFile.py export_hg_to_dat                                     *)
(*                                                                         *)
(* Python lists are sequences; Python indexes start at 0 and the indexes   *)
(* of the sequences here at 1, so index k of the source is index k+1 here. *)
(* A probability is kept in percent; random.random() draws from            *)
(* RandomValues, and "random.random() < p" is the comparison of the two.   *)
(***************************************************************************)
EXTENDS Integers, Sequences, FiniteSets, TLC

\* ---------------------------------------------------------------- bounds
MaxNodes == 3
MaxHyperedges == 3
MaxHypergraphs == 2
MaxSize == 5
MaxLen == 3
MaxVertices == 3

\* p in percent: below 0, 0, inside (0,1), 1, above 1
PValues == {-50, 0, 50, 100, 150}
\* random.random() returns a float in [0.0, 1.0): the extremes, in percent
RandomValues == {0, 99}

VARIABLES
    pc,                   \* position in the running function
    caller,               \* "none": the generator is called directly; "main": by main
    p,
    ret,                  \* the value returned by the outermost call
    exc,                  \* "none", or the exception that left the outermost call
    \* FirstMethod.py
    num_nodes, num_hyperedges, make_simple, make_connected,
    hypergraph, indices_to_remove, connected_components,
    \* main.py
    num_hypergraphs, name, i, main_hypergraph, exported,
    \* SecondMethod.py
    total_size, sperner, tree, root, partition_A, partition_B, level, queue,
    visited, initial_hyperedges_sets, final_hyperedges_sets, final_hyperedges

scratchVars == <<num_nodes, num_hyperedges, make_simple, make_connected,
                 hypergraph, indices_to_remove, connected_components>>
mainVars == <<num_hypergraphs, name, i, main_hypergraph, exported>>
treeVars == <<total_size, sperner, tree, root, partition_A, partition_B, level,
              queue, visited, initial_hyperedges_sets, final_hyperedges_sets,
              final_hyperedges>>
vars == <<pc, caller, p, ret, exc, scratchVars, mainVars, treeVars>>

\* ------------------------------------------------------- Python helpers
\* set(h) of a list or tuple h
ToSet(h) == {h[k] : k \in DOMAIN h}

Min(S) == CHOOSE x \in S : \A y \in S : x <= y

\* sorted(list(S)) / tuple(sorted(list(S))): the members of S in ascending order
RECURSIVE Sorted(_)
Sorted(S) == IF S = {} THEN <<>> ELSE <<Min(S)>> \o Sorted(S \ {Min(S)})

Max(S) == CHOOSE x \in S : \A y \in S : y <= x

\* l.pop(k)
Pop(l, k) == SubSeq(l, 1, k - 1) \o SubSeq(l, k + 1, Len(l))

\* for i in sorted(indices_to_remove, reverse=True): l.pop(i)
RECURSIVE PopIndices(_, _)
PopIndices(l, idx) ==
    IF idx = {} THEN l ELSE PopIndices(Pop(l, Max(idx)), idx \ {Max(idx)})

\* every ordering (as a sequence) of the finite set S
Orderings(S) ==
    {o \in [1..Cardinality(S) -> S] : \A a, b \in 1..Cardinality(S) : a # b => o[a] # o[b]}

\* ------------------------------------------------ FirstMethod.py
\* one hyperedge of the sampling loop: node is appended, in the order of
\* range(num_nodes), when its draw r[node] is below p
SampledHyperedge(r) == Sorted({node \in DOMAIN r : r[node] < p})

\* set(hypergraph[node]) & set(hypergraph[j]) is non-empty
Intersects(hg, node, j) == ToSet(hg[node]) \cap ToSet(hg[j]) # {}

\* PushNeighbours with the inner loop started after node: range(node + 1, len(hypergraph))
PushNeighboursAfterNode(hg, node, seen, stack) ==
    stack \o SelectSeq([j \in 1..Len(hg) |-> j],
                       LAMBDA j : j > node /\ j \notin seen /\ Intersects(hg, node, j))

\* for j in range(len(hypergraph)): if j not in visited and (...): stack.append(j)
PushNeighbours(hg, node, seen, stack) ==
    stack \o SelectSeq([j \in 1..Len(hg) |-> j],
                       LAMBDA j : j \notin seen /\ Intersects(hg, node, j))

\* while stack: ... ; gives the visited set and the component when the stack is empty
RECURSIVE SearchFrom(_, _, _, _)
SearchFrom(hg, stack, seen, component) ==
    IF stack = <<>> THEN [visited |-> seen, component |-> component]
    ELSE LET node == stack[Len(stack)]
             rest == SubSeq(stack, 1, Len(stack) - 1)
         IN IF node \notin seen
            THEN SearchFrom(hg, PushNeighbours(hg, node, seen \cup {node}, rest),
                            seen \cup {node}, component \cup {node})
            ELSE SearchFrom(hg, rest, seen, component)

\* for i in range(len(hypergraph)): if i not in visited: ... connected_components.append(component)
RECURSIVE Components(_, _, _, _)
Components(hg, k, seen, comps) ==
    IF k > Len(hg) THEN comps
    ELSE IF k \in seen THEN Components(hg, k + 1, seen, comps)
    ELSE LET s == SearchFrom(hg, <<k>>, seen, {})
         IN Components(hg, k + 1, s.visited, Append(comps, s.component))

\* LargestComponent with the selection lost: every component is kept
LargestComponentKeepsAll(comps) == UNION {comps[k] : k \in DOMAIN comps}

\* max(connected_components, key=len): the first component of maximal size
LargestComponent(comps) ==
    comps[Min({k \in DOMAIN comps :
                 \A m \in DOMAIN comps : Cardinality(comps[m]) <= Cardinality(comps[k])})]

\* SimpleInner without its elif branch: index j is never marked
RECURSIVE SimpleInnerNoElif(_, _, _, _)
SimpleInnerNoElif(hg, k, j, marks) ==
    IF j > Len(hg) THEN marks
    ELSE IF ToSet(hg[k]) \subseteq ToSet(hg[j]) THEN marks \cup {k}
    ELSE SimpleInnerNoElif(hg, k, j + 1, marks)

\* SimpleInner marking the containing hyperedge instead of the contained one
RECURSIVE SimpleInnerMarksOther(_, _, _, _)
SimpleInnerMarksOther(hg, k, j, marks) ==
    IF j > Len(hg) THEN marks
    ELSE IF ToSet(hg[k]) \subseteq ToSet(hg[j]) THEN marks \cup {j}
    ELSE IF ToSet(hg[j]) \subseteq ToSet(hg[k]) THEN SimpleInnerMarksOther(hg, k, j + 1, marks \cup {k})
    ELSE SimpleInnerMarksOther(hg, k, j + 1, marks)

\* the inner loop of the simplicity filter, from j on; gives indices_to_remove
RECURSIVE SimpleInner(_, _, _, _)
SimpleInner(hg, k, j, marks) ==
    IF j > Len(hg) THEN marks
    ELSE IF ToSet(hg[k]) \subseteq ToSet(hg[j]) THEN marks \cup {k}
    ELSE IF ToSet(hg[j]) \subseteq ToSet(hg[k]) THEN SimpleInner(hg, k, j + 1, marks \cup {j})
    ELSE SimpleInner(hg, k, j + 1, marks)

\* the outer loop of the simplicity filter, from k on
RECURSIVE SimpleOuter(_, _, _)
SimpleOuter(hg, k, marks) ==
    IF k > Len(hg) THEN marks
    ELSE SimpleOuter(hg, k + 1, SimpleInner(hg, k, k + 1, marks))

SimpleIndicesToRemove(hg) == SimpleOuter(hg, 1, {})

\* for i in range(num_hyperedges): one iteration
SampleHyperedge ==
    /\ pc = "sample"
    /\ Len(hypergraph) < num_hyperedges
    /\ \E r \in [0..(num_nodes - 1) -> RandomValues] :
           hypergraph' = Append(hypergraph, SampledHyperedge(r))
    /\ UNCHANGED <<pc, caller, p, ret, exc, num_nodes, num_hyperedges, make_simple,
                   make_connected, indices_to_remove, connected_components,
                   mainVars, treeVars>>

\* the empty hyperedges are removed
DropEmpty ==
    /\ pc = "sample"
    /\ Len(hypergraph) >= num_hyperedges
    /\ indices_to_remove' = {k \in DOMAIN hypergraph : Len(hypergraph[k]) = 0}
    /\ hypergraph' = PopIndices(hypergraph, indices_to_remove')
    /\ pc' = "connect"
    /\ UNCHANGED <<caller, p, ret, exc, num_nodes, num_hyperedges, make_simple,
                   make_connected, connected_components, mainVars, treeVars>>

\* if make_connected: the largest component is kept; max() of an empty list raises
MakeConnected ==
    /\ pc = "connect"
    /\ IF make_connected
       THEN LET comps == Components(hypergraph, 1, {}, <<>>)
            IN /\ connected_components' = comps
               /\ IF comps = <<>>
                  THEN /\ exc' = "ValueError"
                       /\ pc' = "done"
                       /\ UNCHANGED hypergraph
                  ELSE /\ \E order \in Orderings(LargestComponent(comps)) :
                              hypergraph' = [k \in DOMAIN order |-> hypergraph[order[k]]]
                       /\ pc' = "simple"
                       /\ UNCHANGED exc
       ELSE /\ pc' = "simple"
            /\ UNCHANGED <<hypergraph, connected_components, exc>>
    /\ UNCHANGED <<caller, p, ret, num_nodes, num_hyperedges, make_simple,
                   make_connected, indices_to_remove, mainVars, treeVars>>

\* if make_simple: the hyperedges contained in another one are removed
MakeSimple ==
    /\ pc = "simple"
    /\ indices_to_remove' = IF make_simple THEN SimpleIndicesToRemove(hypergraph)
                                            ELSE indices_to_remove
    /\ hypergraph' = IF make_simple THEN PopIndices(hypergraph, indices_to_remove')
                                    ELSE hypergraph
    /\ pc' = "return"
    /\ UNCHANGED <<caller, p, ret, exc, num_nodes, num_hyperedges, make_simple,
                   make_connected, connected_components, mainVars, treeVars>>

\* return set(map(tuple, hypergraph))
ScratchResult == {hypergraph[k] : k \in DOMAIN hypergraph}

\* the value goes to the caller: the outermost caller, or main's variable hypergraph
ScratchReturn ==
    /\ pc = "return"
    /\ IF caller = "main"
       THEN /\ main_hypergraph' = ScratchResult
            /\ pc' = "main_export"
            /\ UNCHANGED ret
       ELSE /\ ret' = ScratchResult
            /\ pc' = "done"
            /\ UNCHANGED main_hypergraph
    /\ UNCHANGED <<caller, p, exc, scratchVars, num_hypergraphs, name, i, exported, treeVars>>

\* ------------------------------------------------ writeHGtoFile.py / main.py
Digits == <<"0", "1", "2", "3", "4", "5", "6", "7", "8", "9">>

\* the text an f-string gives for a small index
Str(n) == Digits[n + 1]

\* the file name (the part after path/hypergraph_ and before .dat) main writes to
FileName(k) == IF name = "Null" THEN Str(k) ELSE name

\* export_hg_to_dat(hypergraph, path): path is opened for writing and one line
\* is written for every hyperedge
export_hg_to_dat(hg, path) == [path |-> path, lines |-> hg]

\* for i in range(num_hypergraphs): the generator is called with its default flags
MainCallGenerator ==
    /\ pc = "main_loop"
    /\ i < num_hypergraphs
    /\ make_simple' = TRUE
    /\ make_connected' = TRUE
    /\ hypergraph' = <<>>
    /\ pc' = "sample"
    /\ UNCHANGED <<caller, p, ret, exc, num_nodes, num_hyperedges, indices_to_remove,
                   connected_components, mainVars, treeVars>>

\* the rest of the loop body: the export, then "return len(hypergraph)"
MainExportAndReturn ==
    /\ pc = "main_export"
    /\ exported' = Append(exported, export_hg_to_dat(main_hypergraph, FileName(i)))
    /\ ret' = Cardinality(main_hypergraph)
    /\ pc' = "done"
    /\ UNCHANGED <<caller, p, exc, scratchVars, num_hypergraphs, name, i,
                   main_hypergraph, treeVars>>

\* range(num_hypergraphs) is exhausted: main falls off its end and returns None
MainLoopEnd ==
    /\ pc = "main_loop"
    /\ i >= num_hypergraphs
    /\ ret' = "None"
    /\ pc' = "done"
    /\ UNCHANGED <<caller, p, exc, scratchVars, mainVars, treeVars>>

\* ------------------------------------------------ SecondMethod.py
\* the nodes of nx.random_labeled_tree(n)
TreeNodes(n) == 0..(n - 1)

\* the nodes reached from the set seen along the edges in t
RECURSIVE ReachedFrom(_, _)
ReachedFrom(t, seen) ==
    LET more == {v \in UNION {{e[1], e[2]} : e \in t} :
                   \E e \in t : (e[1] \in seen /\ e[2] = v) \/ (e[2] \in seen /\ e[1] = v)}
    IN IF more \subseteq seen THEN seen ELSE ReachedFrom(t, seen \cup more)

\* nx.random_labeled_tree(n) returns one of the labeled trees on n nodes:
\* n - 1 edges (here each written <<u, v>> with u < v) that connect all nodes
LabeledTrees(n) ==
    {t \in SUBSET {e \in TreeNodes(n) \X TreeNodes(n) : e[1] < e[2]} :
        /\ Cardinality(t) = n - 1
        /\ ReachedFrom(t, {0}) = TreeNodes(n)}

\* Neighbors following every edge in its written direction only
NeighborsForwardOnly(t, u) == {v \in TreeNodes(total_size) : <<u, v>> \in t}

\* tree.neighbors(u)
Neighbors(t, u) == {v \in TreeNodes(total_size) : <<u, v>> \in t \/ <<v, u>> \in t}

\* vertex_mapping with the new ids counted from 1
VertexMappingFromOne(B, orig_id) == Cardinality({w \in B : w < orig_id}) + 1

\* vertex_mapping[orig_id]: the position of orig_id in sorted(partition_B)
VertexMapping(B, orig_id) == Cardinality({w \in B : w < orig_id})

\* InitialHyperedge without the elif branch of the edge loop
InitialHyperedgeFirstBranchOnly(t, A, B, h_node) ==
    {VertexMapping(B, e[2]) : e \in {d \in t : d[1] = h_node /\ d[1] \in A /\ d[2] \in B}}

\* initial_hyperedges_dict[h_node] after "for u, v in tree.edges()": the edge
\* adds the renamed v when u is h_node in A and v in B, the renamed u when v
\* is h_node in A and u in B, and nothing otherwise
InitialHyperedge(t, A, B, h_node) ==
    {VertexMapping(B, e[2]) : e \in {d \in t : d[1] = h_node /\ d[1] \in A /\ d[2] \in B}}
    \cup
    {VertexMapping(B, e[1]) : e \in {d \in t : d[2] = h_node /\ d[2] \in A /\ d[1] \in B
                                             /\ ~(d[1] \in A /\ d[2] \in B)}}

\* list(unique_hyperedges_map.values()): one set for every distinct vertex set,
\* in the order of first occurrence
RECURSIVE UniqueFrom(_, _, _)
UniqueFrom(l, k, acc) ==
    IF k > Len(l) THEN acc
    ELSE IF l[k] \in ToSet(acc) THEN UniqueFrom(l, k + 1, acc)
    ELSE UniqueFrom(l, k + 1, Append(acc, l[k]))

Unique(l) == UniqueFrom(l, 1, <<>>)

\* IsProperSubsetFrom comparing h_k only with the hyperedges after it
RECURSIVE IsProperSubsetOfLater(_, _, _)
IsProperSubsetOfLater(u, k, j) ==
    IF j > Len(u) THEN FALSE
    ELSE IF j <= k THEN IsProperSubsetOfLater(u, k, j + 1)
    ELSE IF u[k] \subseteq u[j] /\ u[k] # u[j] THEN TRUE
    ELSE IsProperSubsetOfLater(u, k, j + 1)

\* IsProperSubsetFrom with the break outside the if: h_k is compared only with
\* the first hyperedge other than itself
RECURSIVE IsProperSubsetOfFirst(_, _, _)
IsProperSubsetOfFirst(u, k, j) ==
    IF j > Len(u) THEN FALSE
    ELSE IF k = j THEN IsProperSubsetOfFirst(u, k, j + 1)
    ELSE u[k] \subseteq u[j] /\ u[k] # u[j]

\* for j in range(num_unique), from j on: h_k is a proper subset of some h_j, j # k
RECURSIVE IsProperSubsetFrom(_, _, _)
IsProperSubsetFrom(u, k, j) ==
    IF j > Len(u) THEN FALSE
    ELSE IF k = j THEN IsProperSubsetFrom(u, k, j + 1)
    ELSE IF u[k] \subseteq u[j] /\ u[k] # u[j] THEN TRUE
    ELSE IsProperSubsetFrom(u, k, j + 1)

\* for k in range(num_unique), from k on: gives proper_subset_indices
RECURSIVE ProperSubsetIndices(_, _, _)
ProperSubsetIndices(u, k, marks) ==
    IF k > Len(u) THEN marks
    ELSE IF k \in marks THEN ProperSubsetIndices(u, k + 1, marks)
    ELSE IF IsProperSubsetFrom(u, k, 1) THEN ProperSubsetIndices(u, k + 1, marks \cup {k})
    ELSE ProperSubsetIndices(u, k + 1, marks)

\* KeepUnmarked with the test inverted: the marked hyperedges are the ones kept
RECURSIVE KeepMarked(_, _, _)
KeepMarked(u, k, marks) ==
    IF k > Len(u) THEN <<>>
    ELSE (IF k \in marks THEN <<u[k]>> ELSE <<>>) \o KeepMarked(u, k + 1, marks)

\* [unique_hyperedges_list[k] for k in range(num_unique) if k not in proper_subset_indices]
RECURSIVE KeepUnmarked(_, _, _)
KeepUnmarked(u, k, marks) ==
    IF k > Len(u) THEN <<>>
    ELSE (IF k \notin marks THEN <<u[k]>> ELSE <<>>) \o KeepUnmarked(u, k + 1, marks)

\* the body of "if sperner and len(final_hyperedges_sets) > 1"
SpernerFiltered(l) ==
    LET unique_hyperedges_list == Unique(l)
    IN KeepUnmarked(unique_hyperedges_list, 1,
                    ProperSubsetIndices(unique_hyperedges_list, 1, {}))

\* the input validation
Validate ==
    /\ pc = "validate"
    /\ IF total_size < 1
       THEN /\ ret' = <<>>
            /\ pc' = "done"
            /\ UNCHANGED exc
       ELSE IF ~(0 <= p /\ p <= 100)
       THEN /\ exc' = "ValueError"
            /\ pc' = "done"
            /\ UNCHANGED ret
       ELSE /\ pc' = "tree"
            /\ UNCHANGED <<ret, exc>>
    /\ UNCHANGED <<caller, p, scratchVars, mainVars, treeVars>>

\* the random tree, the random root and the start of the traversal
GenerateTree ==
    /\ pc = "tree"
    /\ tree' \in LabeledTrees(total_size)
    /\ root' \in TreeNodes(total_size)
    /\ partition_A' = {}
    /\ partition_B' = {}
    /\ level' = [u \in {root'} |-> 0]
    /\ queue' = <<root'>>
    /\ visited' = {root'}
    /\ pc' = "bfs"
    /\ UNCHANGED <<caller, p, ret, exc, scratchVars, mainVars, total_size, sperner,
                   initial_hyperedges_sets, final_hyperedges_sets, final_hyperedges>>

\* while queue: one iteration; the neighbours are met in the order networkx keeps them in
BfsStep ==
    /\ pc = "bfs"
    /\ queue # <<>>
    /\ LET u == Head(queue)
           current_level == level[u]
           fresh == Neighbors(tree, u) \ visited
       IN /\ IF current_level % 2 = 0
             THEN partition_A' = partition_A \cup {u} /\ UNCHANGED partition_B
             ELSE partition_B' = partition_B \cup {u} /\ UNCHANGED partition_A
          /\ visited' = visited \cup fresh
          /\ level' = [v \in DOMAIN level \cup fresh |->
                          IF v \in fresh THEN current_level + 1 ELSE level[v]]
          /\ \E order \in Orderings(fresh) : queue' = Tail(queue) \o order
    /\ UNCHANGED <<pc, caller, p, ret, exc, scratchVars, mainVars, total_size, sperner,
                   tree, root, initial_hyperedges_sets, final_hyperedges_sets,
                   final_hyperedges>>

\* Step 3: the initial hyperedges, in the order of sorted(partition_A)
BuildInitialHyperedges ==
    /\ pc = "bfs"
    /\ queue = <<>>
    /\ LET hyperedge_nodes_original == Sorted(partition_A)
       IN initial_hyperedges_sets' =
             [k \in DOMAIN hyperedge_nodes_original |->
                 InitialHyperedge(tree, partition_A, partition_B, hyperedge_nodes_original[k])]
    /\ final_hyperedges_sets' = <<>>
    /\ pc' = "perturb"
    /\ UNCHANGED <<caller, p, ret, exc, scratchVars, mainVars, total_size, sperner, tree,
                   root, partition_A, partition_B, level, queue, visited, final_hyperedges>>

\* Step 4: one iteration of "for current_hyperedge_set in initial_hyperedges_sets"
AddVertices ==
    /\ pc = "perturb"
    /\ Len(final_hyperedges_sets) < Len(initial_hyperedges_sets)
    /\ LET current_hyperedge_set == initial_hyperedges_sets[Len(final_hyperedges_sets) + 1]
           all_renamed_vertices == 0..(Cardinality(partition_B) - 1)
           potential_vertices_to_add == all_renamed_vertices \ current_hyperedge_set
       IN \E r \in [potential_vertices_to_add -> RandomValues] :
             final_hyperedges_sets' =
                Append(final_hyperedges_sets,
                       current_hyperedge_set
                          \cup {vertex_id \in potential_vertices_to_add : r[vertex_id] < p})
    /\ UNCHANGED <<pc, caller, p, ret, exc, scratchVars, mainVars, total_size, sperner,
                   tree, root, partition_A, partition_B, level, queue, visited,
                   initial_hyperedges_sets, final_hyperedges>>

\* Step 5: the list of sorted tuples
FormatHyperedges ==
    /\ pc = "perturb"
    /\ Len(final_hyperedges_sets) >= Len(initial_hyperedges_sets)
    /\ final_hyperedges' = [k \in DOMAIN final_hyperedges_sets |->
                               Sorted(final_hyperedges_sets[k])]
    /\ pc' = "sperner"
    /\ UNCHANGED <<caller, p, ret, exc, scratchVars, mainVars, total_size, sperner, tree,
                   root, partition_A, partition_B, level, queue, visited,
                   initial_hyperedges_sets, final_hyperedges_sets>>

\* if sperner and len(final_hyperedges_sets) > 1: the Sperner reduction
SpernerReduction ==
    /\ pc = "sperner"
    /\ final_hyperedges_sets' =
          IF sperner /\ Len(final_hyperedges_sets) > 1
          THEN SpernerFiltered(final_hyperedges_sets)
          ELSE final_hyperedges_sets
    /\ pc' = "format"
    /\ UNCHANGED <<caller, p, ret, exc, scratchVars, mainVars, total_size, sperner, tree,
                   root, partition_A, partition_B, level, queue, visited,
                   initial_hyperedges_sets, final_hyperedges>>

\* the set of sorted tuples is built and returned
TreeReturn ==
    /\ pc = "format"
    /\ final_hyperedges' = {Sorted(final_hyperedges_sets[k]) : k \in DOMAIN final_hyperedges_sets}
    /\ ret' = final_hyperedges'
    /\ pc' = "done"
    /\ UNCHANGED <<caller, p, exc, scratchVars, mainVars, total_size, sperner, tree,
                   root, partition_A, partition_B, level, queue, visited,
                   initial_hyperedges_sets, final_hyperedges_sets>>

\* ------------------------------------------------ initial states
ScratchIdle ==
    /\ num_nodes = 0 /\ num_hyperedges = 0
    /\ make_simple = FALSE /\ make_connected = FALSE
    /\ hypergraph = <<>> /\ indices_to_remove = {} /\ connected_components = <<>>

MainIdle ==
    /\ num_hypergraphs = 0 /\ name = "Null" /\ i = 0
    /\ main_hypergraph = {} /\ exported = <<>>

TreeIdle ==
    /\ total_size = 0 /\ sperner = FALSE /\ tree = {} /\ root = 0
    /\ partition_A = {} /\ partition_B = {} /\ level = <<>> /\ queue = <<>>
    /\ visited = {} /\ initial_hyperedges_sets = <<>>
    /\ final_hyperedges_sets = <<>> /\ final_hyperedges = <<>>

\* generate_random_hypergraph_from_scratch(num_nodes, num_hyperedges, p, make_simple, make_connected)
Init ==
    /\ pc = "sample" /\ caller = "none" /\ ret = "None" /\ exc = "none"
    /\ p \in PValues
    /\ num_nodes \in 0..MaxNodes
    /\ num_hyperedges \in 0..MaxHyperedges
    /\ make_simple \in BOOLEAN
    /\ make_connected \in BOOLEAN
    /\ hypergraph = <<>> /\ indices_to_remove = {} /\ connected_components = <<>>
    /\ MainIdle
    /\ TreeIdle

Next == SampleHyperedge \/ DropEmpty \/ MakeConnected \/ MakeSimple \/ ScratchReturn

Spec == Init /\ [][Next]_vars

\* main(num_hypergraphs, num_nodes, num_hyperedges, p, path, name)
InitMain ==
    /\ pc = "main_loop" /\ caller = "main" /\ ret = "None" /\ exc = "none"
    /\ p \in PValues
    /\ num_nodes \in 0..MaxNodes
    /\ num_hyperedges \in 0..MaxHyperedges
    /\ make_simple = FALSE /\ make_connected = FALSE
    /\ hypergraph = <<>> /\ indices_to_remove = {} /\ connected_components = <<>>
    /\ num_hypergraphs \in 0..MaxHypergraphs
    /\ name \in {"Null", "7"}
    /\ i = 0 /\ main_hypergraph = {} /\ exported = <<>>
    /\ TreeIdle

NextMain == MainCallGenerator \/ MainExportAndReturn \/ MainLoopEnd \/ Next

SpecMain == InitMain /\ [][NextMain]_vars

\* generate_random_hypergraph_from_a_tree(total_size, p, draw=False, sperner)
InitTree ==
    /\ pc = "validate" /\ caller = "none" /\ ret = "None" /\ exc = "none"
    /\ p \in PValues
    /\ total_size \in 0..MaxSize
    /\ sperner \in BOOLEAN
    /\ tree = {} /\ root = 0
    /\ partition_A = {} /\ partition_B = {} /\ level = <<>> /\ queue = <<>>
    /\ visited = {} /\ initial_hyperedges_sets = <<>>
    /\ final_hyperedges_sets = <<>> /\ final_hyperedges = <<>>
    /\ ScratchIdle
    /\ MainIdle

NextTree ==
    \/ Validate
    \/ GenerateTree
    \/ BfsStep
    \/ BuildInitialHyperedges
    \/ AddVertices
    \/ FormatHyperedges
    \/ SpernerReduction
    \/ TreeReturn

SpecTree == InitTree /\ [][NextTree]_vars

\* the lists of at most n vertex sets over the vertices 0..m-1
HyperedgeLists(n, m) == UNION {[1..len -> SUBSET (0..(m - 1))] : len \in 0..n}

\* the Sperner reduction as a function of the list it is given: the function
\* is entered at the reduction, with any list in final_hyperedges_sets
InitSperner ==
    /\ pc = "sperner" /\ caller = "none" /\ ret = "None" /\ exc = "none"
    /\ p = 0
    /\ total_size = 0
    /\ sperner \in BOOLEAN
    /\ tree = {} /\ root = 0
    /\ partition_A = {} /\ partition_B = {} /\ level = <<>> /\ queue = <<>>
    /\ visited = {} /\ initial_hyperedges_sets = <<>>
    /\ final_hyperedges_sets \in HyperedgeLists(MaxLen, MaxVertices)
    /\ final_hyperedges = [k \in DOMAIN final_hyperedges_sets |->
                              Sorted(final_hyperedges_sets[k])]
    /\ ScratchIdle
    /\ MainIdle

NextSperner == SpernerReduction \/ TreeReturn

SpecSperner == InitSperner /\ [][NextSperner]_vars

\* ------------------------------------------------ properties: vocabulary
\* the hyperedges of H (tuples) a and b share a vertex
Adjacent(a, b) == ToSet(a) \cap ToSet(b) # {}

\* the intersection graph of the set H of hyperedges is connected: no proper
\* non-empty part of H is without a hyperedge adjacent to one outside it
IntersectionGraphConnected(H) ==
    \A S \in SUBSET H :
        (S # {} /\ S # H) => \E a \in S, b \in H \ S : Adjacent(a, b)

\* the inclusion-maximal members of the family F of vertex sets
MaximalSets(F) == {x \in F : \A y \in F : ~(x \subseteq y /\ x # y)}

\* the vertex sets of the list l of hyperedges
VertexSets(l) == {ToSet(l[k]) : k \in DOMAIN l}

\* ------------------------------------------------ FirstMethod.py: claims
\* C1: whenever no non-empty hyperedge was sampled, the scratch generator
\* returns the empty set and raises nothing, whatever the flags are.
C1_EmptyReturnsEmptySet ==
    (pc = "done" /\ hypergraph = <<>>) => (exc = "none" /\ ret = {})

\* C3: with make_simple, no returned hyperedge is a subset of a different
\* returned hyperedge.
C3_SimpleNoSubsetPair ==
    (pc = "done" /\ exc = "none" /\ make_simple) =>
        \A a, b \in ret : a # b => ~(ToSet(a) \subseteq ToSet(b))

C3_Witness ==
    /\ pc = "done" /\ exc = "none" /\ make_simple
    /\ indices_to_remove # {}
    /\ Cardinality(ret) >= 2

\* C4: with make_connected, a returned set of at least 2 hyperedges has a
\* connected intersection graph, with make_simple false and true.
C4_ConnectedResult ==
    (pc = "done" /\ exc = "none" /\ make_connected /\ Cardinality(ret) >= 2) =>
        IntersectionGraphConnected(ret)

\* the component search ran, the simplicity filter then removed one
\* hyperedge, and two hyperedges are returned
C4_Witness ==
    /\ pc = "done" /\ exc = "none" /\ make_connected /\ make_simple
    /\ Len(connected_components) >= 1
    /\ Cardinality(indices_to_remove) = 1
    /\ Cardinality(ret) = 2

\* C9: the simplicity filter keeps exactly the inclusion-maximal vertex sets of
\* its input, one copy of each: an index is removed only if its hyperedge is
\* contained in the hyperedge of another index, and then in a kept one.
C9_SimpleKeepsMaximal ==
    [][(pc = "simple" /\ make_simple) =>
         LET removed == indices_to_remove'
             kept == DOMAIN hypergraph \ removed
         IN /\ VertexSets(hypergraph') = MaximalSets(VertexSets(hypergraph))
            /\ Len(hypergraph') = Cardinality(MaximalSets(VertexSets(hypergraph)))
            /\ \A k \in removed : \E m \in DOMAIN hypergraph :
                   m # k /\ ToSet(hypergraph[k]) \subseteq ToSet(hypergraph[m])
            /\ \A k \in removed : \E m \in kept :
                   ToSet(hypergraph[k]) \subseteq ToSet(hypergraph[m])
            /\ \A k \in DOMAIN hypergraph' : \E m \in kept :
                   hypergraph'[k] = hypergraph[m]]_vars

C9_Witness ==
    /\ pc = "return" /\ make_simple
    /\ Cardinality(indices_to_remove) >= 2
    /\ Len(hypergraph) >= 1

\* ------------------------------------------------ main.py: claims
\* C8: after main returns with the default name and n >= 1, export_hg_to_dat
\* has been called once for each i in 0..n-1 with the file hypergraph_i.dat.
C8_MainExportsEach ==
    (pc = "done" /\ caller = "main" /\ exc = "none" /\ name = "Null"
        /\ num_hypergraphs >= 1) =>
        /\ Len(exported) = num_hypergraphs
        /\ \A k \in 0..(num_hypergraphs - 1) : exported[k + 1].path = Str(k)

\* ------------------------------------------------ SecondMethod.py: claims
\* the vertex ids that occur in the set H of hyperedges
VertexIds(H) == UNION {ToSet(t) : t \in H}

\* C2: with total_size < 1 the tree generator raises ValueError and never
\* returns a value.
C2_SmallSizeRaises ==
    (pc = "done" /\ total_size < 1) => exc = "ValueError"

\* C5: the vertex ids of the returned hyperedges are exactly 0..|B|-1, also
\* after the Sperner reduction removed hyperedges.
C5_VertexIdsAreRange ==
    (pc = "done" /\ exc = "none" /\ total_size >= 1) =>
        VertexIds(ret) = 0..(Cardinality(partition_B) - 1)

C5_Witness ==
    /\ pc = "done" /\ exc = "none" /\ total_size >= 1 /\ sperner
    /\ Cardinality(partition_B) >= 2
    /\ Cardinality(ret) < Len(initial_hyperedges_sets)

\* C6: with sperner the returned set is an antichain: no returned hyperedge
\* is a strict subset of another.
C6_SpernerAntichain ==
    (pc = "done" /\ exc = "none" /\ total_size >= 1 /\ sperner) =>
        \A a, b \in ret : ~(ToSet(a) \subseteq ToSet(b) /\ ToSet(a) # ToSet(b))

\* the tree gave an antichain of distinct hyperedges and the added vertices
\* made one of them a strict subset of another, which the reduction removed
C6_Witness ==
    /\ pc = "done" /\ exc = "none" /\ total_size >= 1 /\ sperner
    /\ Len(initial_hyperedges_sets) >= 2
    /\ \A k, m \in DOMAIN initial_hyperedges_sets :
          k # m => ~(initial_hyperedges_sets[k] \subseteq initial_hyperedges_sets[m])
    /\ Cardinality(ret) < Len(initial_hyperedges_sets)

\* C7: the returned hypergraph is connected (for at least 2 hyperedges) and,
\* for total_size >= 2, has no empty hyperedge.
C7_TreeResultConnected ==
    (pc = "done" /\ exc = "none" /\ total_size >= 1) =>
        /\ Cardinality(ret) >= 2 => IntersectionGraphConnected(ret)
        /\ total_size >= 2 => <<>> \notin ret

C7_Witness ==
    /\ pc = "done" /\ exc = "none" /\ total_size >= 2
    /\ Cardinality(ret) >= 3
    /\ \E a, b \in ret : ~Adjacent(a, b)

\* C10: the one-pass Sperner reduction of a list of more than one hyperedge
\* leaves exactly the inclusion-maximal distinct vertex sets, one copy of
\* each, whatever the order of the list; no member of a chain but its top stays.
C10_OnePassIsClosure ==
    (pc = "format" /\ sperner /\ Len(final_hyperedges) > 1) =>
        LET input == [k \in DOMAIN final_hyperedges |-> ToSet(final_hyperedges[k])]
            F == ToSet(input)
            survivors == ToSet(final_hyperedges_sets)
        IN /\ survivors = MaximalSets(F)
           /\ Len(final_hyperedges_sets) = Cardinality(survivors)
           /\ \A x \in F : x \notin survivors <=> \E y \in F : x \subseteq y /\ x # y
           /\ \A a, b, c \in F :
                 (a \subseteq b /\ a # b /\ b \subseteq c /\ b # c) =>
                     (a \notin survivors /\ b \notin survivors)
           /\ \A o \in Orderings(DOMAIN input) :
                 ToSet(SpernerFiltered([k \in DOMAIN input |-> input[o[k]]])) = survivors

\* a chain given with its middle member first: only its top is left
C10_Witness ==
    /\ pc = "format" /\ sperner /\ Len(final_hyperedges) = 3
    /\ LET A == ToSet(final_hyperedges[2])
           B == ToSet(final_hyperedges[1])
           C == ToSet(final_hyperedges[3])
       IN /\ A \subseteq B /\ A # B
          /\ B \subseteq C /\ B # C
          /\ final_hyperedges_sets = <<C>>

\* ------------------------------------------------ FirstMethod.py: the search
\* the indexes k and m of the list hg are linked by a chain of hyperedges of
\* hg, each sharing a vertex with the next, all with their index in within
RECURSIVE ChainedFrom(_, _, _)
ChainedFrom(hg, within, reached) ==
    LET more == {m \in within : \E k \in reached : Adjacent(hg[k], hg[m])}
    IN IF more \subseteq reached THEN reached ELSE ChainedFrom(hg, within, reached \cup more)

\* the indexes linked to k by such a chain: the connected component of k
ComponentOf(hg, k) == ChainedFrom(hg, DOMAIN hg, {k})

\* the list kept holds the hyperedges of the indexes in comp, each as often
\* as it occurs among them
HoldsExactly(kept, hg, comp) ==
    /\ Len(kept) = Cardinality(comp)
    /\ \A k \in comp :
          Cardinality({j \in DOMAIN kept : kept[j] = hg[k]})
              = Cardinality({m \in comp : hg[m] = hg[k]})

\* C11: with make_connected and a non-empty hyperedge, the search partitions
\* the indexes into the connected components of the intersection graph, and
\* the hyperedges kept are those of one component of maximal size.
C11_SearchGivesComponents ==
    [][(pc = "connect" /\ make_connected /\ hypergraph # <<>>) =>
         LET comps == connected_components'
         IN /\ \A k \in DOMAIN hypergraph :
                  Cardinality({c \in DOMAIN comps : k \in comps[c]}) = 1
            /\ \A c \in DOMAIN comps :
                  /\ comps[c] # {} /\ comps[c] \subseteq DOMAIN hypergraph
                  /\ comps[c] = ComponentOf(hypergraph, Min(comps[c]))
            /\ \E c \in DOMAIN comps :
                  /\ \A d \in DOMAIN comps : Cardinality(comps[d]) <= Cardinality(comps[c])
                  /\ HoldsExactly(hypergraph', hypergraph, comps[c])]_vars

\* the search found two components, the kept one with two hyperedges or more
C11_Witness ==
    /\ pc = "simple" /\ make_connected
    /\ Len(connected_components) >= 2
    /\ Len(hypergraph) >= 2
    /\ \E c \in DOMAIN connected_components :
          Cardinality(connected_components[c]) < Len(hypergraph)

\* ------------------------------------------------ SecondMethod.py: the traversal
\* the traversal of a generated tree has ended
TraversalEnded ==
    \/ pc = "bfs" /\ queue = <<>>
    \/ pc \in {"perturb", "sperner", "format"}
    \/ pc = "done" /\ exc = "none" /\ total_size >= 1

\* the edge loop has run
EdgeLoopDone ==
    \/ pc \in {"perturb", "sperner", "format"}
    \/ pc = "done" /\ exc = "none" /\ total_size >= 1

\* the number of (hyperedge, vertex) incidences of the list l of vertex sets
RECURSIVE Incidences(_)
Incidences(l) == IF l = <<>> THEN 0 ELSE Cardinality(Head(l)) + Incidences(Tail(l))

\* C12: when the traversal has ended, partition_A and partition_B are
\* disjoint and cover the tree, the root is in A, and every tree edge has
\* one endpoint in A and the other in B; so the edge loop takes one of its
\* two branches for every edge and adds one incidence per edge.
C12_BipartitionOfTree ==
    /\ TraversalEnded =>
          /\ partition_A \cap partition_B = {}
          /\ partition_A \cup partition_B = TreeNodes(total_size)
          /\ root \in partition_A
          /\ \A e \in tree :
                \/ e[1] \in partition_A /\ e[2] \in partition_B
                \/ e[2] \in partition_A /\ e[1] \in partition_B
    /\ EdgeLoopDone =>
          /\ Len(initial_hyperedges_sets) = Cardinality(partition_A)
          /\ Incidences(initial_hyperedges_sets) = Cardinality(tree)

\* a tree of depth 3 or more from a root that is not node 0, whose edges
\* take both branches of the edge loop
C12_Witness ==
    /\ pc = "perturb"
    /\ root # 0
    /\ \E v \in DOMAIN level : level[v] >= 3
    /\ Cardinality(partition_A) >= 2 /\ Cardinality(partition_B) >= 2
    /\ \E e \in tree : e[1] \in partition_A
    /\ \E e \in tree : e[2] \in partition_A

====
